---- MODULE Spec2Model ----
(***************************************************************************)
(* AsyncCart: a cart coordinator that funnels every provider operation     *)
(* through a PQueue of concurrency 1 and dispatches statuschange, idle and *)
(* change events.                                                          *)
(*                                                                         *)
(* The JavaScript run-to-completion semantics is kept: a call of a public  *)
(* method runs synchronously up to its first await (which includes the     *)
(* synchronous start of the queued job when the queue has a free slot),    *)
(* the queue's job wrapper settles the promise returned by add() and calls *)
(* next() in the same turn, and the continuation of runCartOperation       *)
(* behind `await queuePromise` runs afterwards as a microtask.             *)
(*                                                                         *)
(* The microtasks are kept in the order the engine runs them (`micro`):    *)
(* the hops of a task that settles without waiting for anything (an        *)
(* operation that throws or resolves at once), the job that ties the       *)
(* promise of the asynchronous add() to the promise of the job, the        *)
(* settlement of the promise of add(), and the continuation itself.        *)
(*                                                                         *)
(* dispatchEvent runs the listeners synchronously, and a listener may call *)
(* the public methods: every dispatch therefore leaves the rest of the     *)
(* dispatching code as a frame on `stack`, to be resumed when the          *)
(* listeners are done; so does the call of config.onError. A public method *)
(* may be called at any point: from a listener or from onError (stack not  *)
(* empty), from a caller's microtask (microtasks pending) or in a turn of  *)
(* its own.                                                                *)
(***************************************************************************)
EXTENDS Integers, Sequences, FiniteSets

VARIABLES
    status,                   \* AsyncCart._status
    cart,                     \* AsyncCart._cart
    previousCartRevisionId,   \* AsyncCart._previousCartRevisionId
    queue,                    \* PQueue: jobs waiting to start (ids of ops)
    pending,                  \* PQueue: number of jobs started and not settled
    ops,                      \* every runCartOperation invocation so far
    micro,                    \* the microtask queue, next to run first
    stack,                    \* code suspended in a call-out, innermost first
    calls,                    \* log of the provider operations begun
    events,                   \* log of the events dispatched
    errors,                   \* log of the onError invocations
    enqueued,                 \* history: the ops in the order of queue.add
    lastOk,                   \* history: result of the last task that succeeded
    batchStart,               \* history: _cart when the running batch began
    drains                    \* history: one record per drain of the queue

vars == <<status, cart, previousCartRevisionId, queue, pending, ops, micro,
          stack, calls, events, errors, enqueued, lastOk, batchStart, drains>>

-----------------------------------------------------------------------------
(* Bounds *)

MaxOps == 3        \* calls of public methods
MaxRev == 2        \* revisions the carts range over

-----------------------------------------------------------------------------
(* Values *)

NullRev == 0
Null == [rev |-> NullRev]          \* null: no snapshot
Carts == [rev : 1..MaxRev]         \* the snapshots a task returns

cartRevisionId(c) == c.rev

Mutations == {"updateBuyer", "updateDiscountCodes", "updateAttributes",
              "addLineItems", "updateLineItems", "removeLineItems"}
\* "operation" is an operation a caller hands to runCartOperation itself.
Kinds == {"fetch", "create", "operation"} \cup Mutations

\* A queue that lets a second job start beside the running one.
ConcurrencyTwo == 1 + 1
Concurrency == 1

CartEvent(name, c) == [type |-> name, status |-> "", cart |-> c]
CartStatusChangeEvent(st) == [type |-> "statuschange", status |-> st, cart |-> Null]

Resolved(c) == [ok |-> TRUE, value |-> c, err |-> ""]
Rejected(e) == [ok |-> FALSE, value |-> Null, err |-> e]
NoOutcome == [ok |-> FALSE, value |-> Null, err |-> ""]

\* A microtask of op j: a hop of its task ("task", n the number of the hop),
\* the job that ties the promise add() returned to the promise of the job
\* ("thenable"), the settlement of the promise add() returned ("settled"),
\* the continuation of runCartOperation ("cont").
Microtask(t, j, n) == [t |-> t, op |-> j, n |-> n]

\* The code that follows a call-out: queue.add of op (line 84), the change
\* check of the idle handler (line 59), the return of op (line 99) or the
\* exception of onError leaving it, nothing (behind the change event), and
\* the finally block of op behind onError (line 96).
Frame(f, j) == [f |-> f, op |-> j]

-----------------------------------------------------------------------------
(* The program state as one record, so that the synchronous call chains of *)
(* the code can be composed as functions of it.                            *)

St == [status |-> status, cart |-> cart, prev |-> previousCartRevisionId,
       queue |-> queue, pending |-> pending, ops |-> ops, micro |-> micro,
       stack |-> stack, calls |-> calls, events |-> events, errors |-> errors,
       enqueued |-> enqueued]

\* The event reaches the listeners; the dispatching code goes on with `rest`
\* once they are done.
dispatchEvent(s, e, rest) ==
    [s EXCEPT !.events = Append(@, e), !.stack = <<rest>> \o @]

\* A listener that dispatches change before idle.
IdleHandlerChangeFirst(s) ==
    LET s1 == IF s.cart # Null /\ cartRevisionId(s.cart) # s.prev
              THEN dispatchEvent(s, CartEvent("change", s.cart), Frame("end", 0))
              ELSE s
    IN  dispatchEvent(s1, CartEvent("idle", s1.cart), Frame("end", 0))

\* The listener on the queue's 'idle' event, to its dispatch of idle.
IdleHandler(s) == dispatchEvent(s, CartEvent("idle", s.cart), Frame("change", 0))

\* A change check that does not look at the snapshot.
IdleHandlerChangeUnguarded(s) ==
    dispatchEvent(s, CartEvent("change", s.cart), Frame("end", 0))

\* The listener on the queue's 'idle' event, behind its dispatch of idle.
IdleHandlerChange(s) ==
    IF s.cart # Null /\ cartRevisionId(s.cart) # s.prev
    THEN dispatchEvent(s, CartEvent("change", s.cart), Frame("end", 0))
    ELSE s

\* The task of op j has run to its first await: the job goes on in a
\* microtask.
TaskBegins(s, j) ==
    [s EXCEPT !.ops[j].pc = "running",
              !.micro = Append(@, Microtask("task", j, 1))]

\* A provider operation is begun for op j with cart argument c (Null for
\* fetch and create, which take no cart).
CallProvider(s, j, c) ==
    TaskBegins([s EXCEPT !.calls = Append(@, [op |-> j, kind |-> s.ops[j].kind,
                                              cart |-> c])], j)

RECURSIVE TryToStartAnother(_)

\* runCartOperation to its dispatch of statuschange (lines 77-82). parent = 0
\* for a caller's operation, and the op whose task called create({}) otherwise.
runCartOperation(s, kind, parent) ==
    LET k == Len(s.ops) + 1
        op == [kind |-> kind, parent |-> parent, result |-> s.cart,
               currentRevisionId |->
                   IF s.cart # Null THEN cartRevisionId(s.cart) ELSE NullRev,
               pc |-> "created", ret |-> Null, caller |-> "pending",
               linked |-> FALSE, outcome |-> NoOutcome]
        s1 == [s EXCEPT !.ops = Append(@, op), !.status = "UPDATING"]
    IN  dispatchEvent(s1, CartStatusChangeEvent(s1.status), Frame("add", k))

\* The job of op j starts: the task body runs up to its first await.
StartJob(s, j) ==
    LET s1 == [s EXCEPT !.pending = @ + 1]
    IN  IF s1.ops[j].kind \in {"fetch", "create"}
        THEN CallProvider(s1, j, Null)
        ELSE IF s1.ops[j].kind = "operation"
        THEN TaskBegins(s1, j)
        ELSE IF s1.cart # Null
             THEN CallProvider(s1, j, s1.cart)
             ELSE runCartOperation([s1 EXCEPT !.ops[j].pc = "awaitCreate"], "create", j)

\* A scheduling step that reports idle before looking at the queue.
TryToStartAnotherIdleFirst(s) ==
    LET s0 == IF s.pending = 0 THEN IdleHandler(s) ELSE s
    IN  IF s0.queue = <<>>
        THEN s0
        ELSE IF s0.pending < Concurrency
             THEN StartJob([s0 EXCEPT !.queue = Tail(@)], Head(s0.queue))
             ELSE s0

\* PQueue's scheduling step, called by add() and by next().
TryToStartAnother(s) ==
    IF s.queue = <<>>
    THEN IF s.pending = 0 THEN IdleHandler(s) ELSE s
    ELSE IF s.pending < Concurrency
         THEN StartJob([s EXCEPT !.queue = Tail(@)], Head(s.queue))
         ELSE s

\* PQueue.add(): enqueue the job, then try to start one (lines 84-86). add
\* is asynchronous: the promise it returns follows the promise of the job
\* from a microtask on.
QueueAdd(s, k) ==
    LET s1 == TryToStartAnother([s EXCEPT !.queue = Append(@, k),
                                          !.ops[k].pc = "queued",
                                          !.enqueued = Append(@, k)])
    IN  [s1 EXCEPT !.micro = Append(@, Microtask("thenable", k, 0))]

\* The job of op j settles: the promise of the job is settled (when the
\* promise add() returned follows it already, the settlement of that one
\* becomes a microtask), then next() runs in the same turn.
JobSettled(s, j, outcome) ==
    LET s1 == [s EXCEPT !.ops[j].pc = "settled",
                        !.ops[j].outcome = outcome,
                        !.micro = IF s.ops[j].linked
                                  THEN Append(@, Microtask("settled", j, 0))
                                  ELSE @,
                        !.pending = @ - 1]
    IN  TryToStartAnother(s1)

\* The task of op p resumes behind `await this.create({})` with the value
\* create returned.
ResumeAfterCreate(s, p, c) ==
    IF c = Null
    THEN JobSettled(s, p, Rejected("unable"))
    ELSE CallProvider(s, p, c)

\* The finally block of runCartOperation (lines 96-97); the operation then
\* returns, or lets the exception of onError through.
Finally(s, j, thrown) ==
    LET o == s.ops[j].outcome
        s1 == [s EXCEPT !.status = "READY",
                        !.ops[j].pc = "finishing",
                        !.ops[j].ret = IF o.ok THEN o.value ELSE s.ops[j].result]
    IN  dispatchEvent(s1, CartStatusChangeEvent(s1.status),
                      Frame(IF thrown THEN "throw" ELSE "return", j))

\* A continuation that writes the value it is going to return to _cart on
\* the failure path as well.
ContinuationAssignAlways(s, j) ==
    LET o == s.ops[j].outcome
    IN  IF o.ok
        THEN Finally([s EXCEPT !.cart = o.value,
                               !.prev = IF cartRevisionId(o.value) # s.ops[j].currentRevisionId
                                        THEN s.ops[j].currentRevisionId
                                        ELSE @], j, FALSE)
        ELSE [s EXCEPT !.errors = Append(@, [op |-> j, err |-> o.err]),
                       !.cart = s.ops[j].result,
                       !.ops[j].pc = "onError",
                       !.stack = <<Frame("onError", j)>> \o @]

\* runCartOperation behind `await queuePromise` (lines 87-94): on success to
\* the dispatch of statuschange in the finally block, on failure to the call
\* of config.onError.
Continuation(s, j) ==
    LET o == s.ops[j].outcome
    IN  IF o.ok
        THEN Finally([s EXCEPT !.cart = o.value,
                               !.prev = IF cartRevisionId(o.value) # s.ops[j].currentRevisionId
                                        THEN s.ops[j].currentRevisionId
                                        ELSE @], j, FALSE)
        ELSE [s EXCEPT !.errors = Append(@, [op |-> j, err |-> o.err]),
                       !.ops[j].pc = "onError",
                       !.stack = <<Frame("onError", j)>> \o @]

\* runCartOperation returns (line 99): the promise it gave its caller
\* resolves with the value, and a task that awaits it goes on.
Return(s, j) ==
    LET s1 == [s EXCEPT !.ops[j].pc = "returned",
                        !.ops[j].caller = IF @ = "pending" THEN "snapshot" ELSE @]
    IN  IF s.ops[j].parent = 0
        THEN s1
        ELSE ResumeAfterCreate(s1, s.ops[j].parent, s.ops[j].ret)

\* The exception of onError leaves runCartOperation behind the finally
\* block: the promise it gave its caller rejects (nobody holds the one fetch
\* dropped), and a task that awaits it fails.
Throw(s, j) ==
    LET s1 == [s EXCEPT !.ops[j].pc = "thrown",
                        !.ops[j].caller = IF @ = "pending" THEN "thrown" ELSE @]
    IN  IF s.ops[j].parent = 0
        THEN s1
        ELSE JobSettled(s1, s.ops[j].parent, Rejected("escalated"))

\* The microtask at the head of the queue, when nothing outside decides
\* what it does.
HeadMicrotask(s) ==
    LET m == Head(s.micro)
        j == m.op
        s1 == [s EXCEPT !.micro = Tail(@)]
    IN  CASE m.t = "thenable" ->
                IF s1.ops[j].pc = "settled"
                THEN [s1 EXCEPT !.micro = Append(@, Microtask("settled", j, 0))]
                ELSE [s1 EXCEPT !.ops[j].linked = TRUE]
          [] m.t = "settled" -> [s1 EXCEPT !.micro = Append(@, Microtask("cont", j, 0))]
          [] m.t = "cont" -> Continuation(s1, j)
          [] OTHER -> JobSettled(s1, j, Rejected("threw"))

\* The listeners are done: the innermost suspended code goes on.
Resume(s) ==
    LET fr == Head(s.stack)
        s1 == [s EXCEPT !.stack = Tail(@)]
    IN  CASE fr.f = "add" -> QueueAdd(s1, fr.op)
          [] fr.f = "change" -> IdleHandlerChange(s1)
          [] fr.f = "return" -> Return(s1, fr.op)
          [] fr.f = "throw" -> Throw(s1, fr.op)
          [] OTHER -> s1

-----------------------------------------------------------------------------
(* History *)

Submitted == {i \in 1..Len(ops) : ops[i].parent = 0}
Outstanding(q, p) == Len(q) + p

\* The events a step added to the log.
NewEvents(t) == SubSeq(t.events, Len(events) + 1, Len(t.events))
HasEvent(es, ty) == \E i \in 1..Len(es) : es[i].type = ty
EventsOf(es, ty) == SelectSeq(es, LAMBDA e : e.type = ty)

\* The record of a drain: the snapshot when the batch began, the result of
\* the last task that succeeded up to the drain (the snapshot the batch ends
\* at), the cart the idle event carries, and the change event once it fired.
Drain(t, ok) ==
    [start |-> batchStart, end |-> ok,
     idle |-> EventsOf(NewEvents(t), "idle")[1].cart,
     change |-> FALSE, changeCart |-> Null]

Changed(d, t) ==
    [d EXCEPT !.change = TRUE,
              !.changeCart = EventsOf(NewEvents(t), "change")[1].cart]

Step(t, ok) ==
    /\ status' = t.status
    /\ cart' = t.cart
    /\ previousCartRevisionId' = t.prev
    /\ queue' = t.queue
    /\ pending' = t.pending
    /\ ops' = t.ops
    /\ micro' = t.micro
    /\ stack' = t.stack
    /\ calls' = t.calls
    /\ events' = t.events
    /\ errors' = t.errors
    /\ enqueued' = t.enqueued
    /\ lastOk' = ok
    /\ batchStart' = IF Outstanding(queue, pending) = 0 /\ Outstanding(t.queue, t.pending) > 0
                     THEN cart
                     ELSE batchStart
    /\ drains' = LET d1 == IF HasEvent(NewEvents(t), "idle")
                           THEN Append(drains, Drain(t, ok))
                           ELSE drains
                 IN  IF HasEvent(NewEvents(t), "change") /\ d1 # <<>>
                     THEN [d1 EXCEPT ![Len(d1)] = Changed(@, t)]
                     ELSE d1

-----------------------------------------------------------------------------
(* Actions *)

Init ==
    /\ status = "IDLE"
    /\ cart = Null
    /\ previousCartRevisionId = NullRev
    /\ queue = <<>>
    /\ pending = 0
    /\ ops = <<>>
    /\ micro = <<>>
    /\ stack = <<>>
    /\ calls = <<>>
    /\ events = <<>>
    /\ errors = <<>>
    /\ enqueued = <<>>
    /\ lastOk = Null
    /\ batchStart = Null
    /\ drains = <<>>

\* A public method may be called: by a listener of the event being
\* dispatched, by a caller's microtask or in a turn of the caller's own; the
\* callers make MaxOps calls at most.
CanSubmit == Cardinality(Submitted) < MaxOps

\* The public methods: the call runs runCartOperation to its dispatch of
\* statuschange.

\* fetch does not return the promise of runCartOperation: the promise it
\* hands its caller resolves with undefined once the synchronous part is done.
FireAndForget(t) == [t EXCEPT !.ops[Len(ops) + 1].caller = "undefined"]

\* A fetch that returns the promise of runCartOperation, as create does.
fetchAwaited ==
    /\ CanSubmit
    /\ Step(runCartOperation(St, "fetch", 0), lastOk)

fetch ==
    /\ CanSubmit
    /\ Step(FireAndForget(runCartOperation(St, "fetch", 0)), lastOk)

create ==
    /\ CanSubmit
    /\ Step(runCartOperation(St, "create", 0), lastOk)

updateBuyer ==
    /\ CanSubmit
    /\ Step(runCartOperation(St, "updateBuyer", 0), lastOk)

updateDiscountCodes ==
    /\ CanSubmit
    /\ Step(runCartOperation(St, "updateDiscountCodes", 0), lastOk)

updateAttributes ==
    /\ CanSubmit
    /\ Step(runCartOperation(St, "updateAttributes", 0), lastOk)

addLineItems ==
    /\ CanSubmit
    /\ Step(runCartOperation(St, "addLineItems", 0), lastOk)

updateLineItems ==
    /\ CanSubmit
    /\ Step(runCartOperation(St, "updateLineItems", 0), lastOk)

removeLineItems ==
    /\ CanSubmit
    /\ Step(runCartOperation(St, "removeLineItems", 0), lastOk)

\* A caller hands runCartOperation an operation of its own.
callRunCartOperation ==
    /\ CanSubmit
    /\ Step(runCartOperation(St, "operation", 0), lastOk)

\* The listeners of the event dispatched last are done.
ListenersDone ==
    /\ stack # <<>>
    /\ Head(stack).f # "onError"
    /\ Step(Resume(St), lastOk)

\* config.onError returns (line 94): the finally block runs.
onErrorReturns ==
    /\ stack # <<>>
    /\ Head(stack).f = "onError"
    /\ Step(Finally([St EXCEPT !.stack = Tail(@)], Head(stack).op, FALSE), lastOk)

\* config.onError throws: the finally block runs, then the exception leaves
\* runCartOperation.
onErrorThrows ==
    /\ stack # <<>>
    /\ Head(stack).f = "onError"
    /\ Step(Finally([St EXCEPT !.stack = Tail(@)], Head(stack).op, TRUE), lastOk)

\* The first hop of the task of a provider operation is next to run.
ProviderAtHead ==
    /\ stack = <<>>
    /\ micro # <<>>
    /\ Head(micro).t = "task"
    /\ Head(micro).n = 1
    /\ ops[Head(micro).op].kind # "operation"

\* Hop n of the task of a caller's operation is next to run.
OperationAtHead(n) ==
    /\ stack = <<>>
    /\ micro # <<>>
    /\ Head(micro).t = "task"
    /\ Head(micro).n = n
    /\ ops[Head(micro).op].kind = "operation"

\* The job of op j waits for something that is not a microtask of its own.
Waiting(j) ==
    /\ stack = <<>>
    /\ micro = <<>>
    /\ ops[j].pc = "running"

\* The provider function threw when the task called it: the job rejects in
\* its second hop.
ProviderThrows ==
    /\ ProviderAtHead
    /\ Step([St EXCEPT !.micro = Append(Tail(@), Microtask("task", Head(micro).op, 2))],
            lastOk)

\* The provider function returned a promise: the job waits for it.
ProviderPending ==
    /\ ProviderAtHead
    /\ Step([St EXCEPT !.micro = Tail(@)], lastOk)

\* The provider promise of op j resolves with cart c. The job settles some
\* microtasks later, behind the microtasks that were pending when it began.
ProviderResolve ==
    \E j \in 1..Len(ops), c \in Carts :
        /\ Waiting(j)
        /\ ops[j].kind # "operation"
        /\ Step(JobSettled(St, j, Resolved(c)), c)

\* The provider promise of op j rejects.
ProviderReject ==
    \E j \in 1..Len(ops) :
        /\ Waiting(j)
        /\ ops[j].kind # "operation"
        /\ Step(JobSettled(St, j, Rejected("rejected")), lastOk)

\* A caller's operation threw when the task called it: the job rejects in
\* its first hop.
OperationThrows ==
    /\ OperationAtHead(1)
    /\ Step(JobSettled([St EXCEPT !.micro = Tail(@)], Head(micro).op, Rejected("threw")),
            lastOk)

\* A caller's operation returned: the job has a second hop, and behind that
\* it waits for the promise the operation returned.
OperationAwaits ==
    \/ /\ OperationAtHead(1)
       /\ Step([St EXCEPT !.micro = Append(Tail(@), Microtask("task", Head(micro).op, 2))],
               lastOk)
    \/ /\ OperationAtHead(2)
       /\ Step([St EXCEPT !.micro = Tail(@)], lastOk)

\* A caller's operation resolves with cart c: at once (the job settles in
\* its second hop) or later.
OperationResolve ==
    \E c \in Carts :
        \/ /\ OperationAtHead(2)
           /\ Step(JobSettled([St EXCEPT !.micro = Tail(@)], Head(micro).op, Resolved(c)), c)
        \/ \E j \in 1..Len(ops) :
              /\ Waiting(j)
              /\ ops[j].kind = "operation"
              /\ Step(JobSettled(St, j, Resolved(c)), c)

\* The promise a caller's operation returned rejects: at once or later.
OperationReject ==
    \/ /\ OperationAtHead(2)
       /\ Step(JobSettled([St EXCEPT !.micro = Tail(@)], Head(micro).op,
                          Rejected("rejected")), lastOk)
    \/ \E j \in 1..Len(ops) :
          /\ Waiting(j)
          /\ ops[j].kind = "operation"
          /\ Step(JobSettled(St, j, Rejected("rejected")), lastOk)

\* The microtask at the head of the queue runs: the promise machinery, a
\* continuation, or the second hop of a task whose provider function threw.
RunMicrotask ==
    /\ stack = <<>>
    /\ micro # <<>>
    /\ Head(micro).t = "task" => (Head(micro).n = 2 /\ ops[Head(micro).op].kind # "operation")
    /\ Step(HeadMicrotask(St), lastOk)

Next ==
    \/ fetch
    \/ create
    \/ updateBuyer
    \/ updateDiscountCodes
    \/ updateAttributes
    \/ addLineItems
    \/ updateLineItems
    \/ removeLineItems
    \/ callRunCartOperation
    \/ ListenersDone
    \/ onErrorReturns
    \/ onErrorThrows
    \/ ProviderThrows
    \/ ProviderPending
    \/ ProviderResolve
    \/ ProviderReject
    \/ OperationThrows
    \/ OperationAwaits
    \/ OperationResolve
    \/ OperationReject
    \/ RunMicrotask

Spec == Init /\ [][Next]_vars

\* The event loop always runs the microtask at the head of the queue, and
\* the listeners and onError always come back; nothing obliges a promise of
\* the provider or of a caller's operation to settle, nor a caller to submit.
FairSpec ==
    /\ Spec
    /\ WF_vars(RunMicrotask)
    /\ WF_vars(ProviderPending)
    /\ WF_vars(OperationAwaits)
    /\ WF_vars(ListenersDone)
    /\ WF_vars(onErrorReturns)

-----------------------------------------------------------------------------
(* Properties *)

InFlight == {j \in 1..Len(ops) : ops[j].pc = "running"}
Executing == {j \in 1..Len(ops) : ops[j].pc \in {"running", "awaitCreate"}}
IdleCount == Len(EventsOf(events, "idle"))

\* Every call begun has settled, every continuation has run and every
\* listener is done: nothing but a new submission can happen.
Quiescent == micro = <<>> /\ stack = <<>> /\ InFlight = {}

\* Op j is over for its caller: it returned, or the exception of onError
\* left it.
Completed(j) == ops[j].pc \in {"returned", "thrown"}

\* The submitted operations that stand for a provider operation.
ProviderOps == {j \in Submitted : ops[j].kind # "operation"}

\* The check of drain i for a change is over.
DrainDone(i) ==
    i < Len(drains) \/ ~\E k \in 1..Len(stack) : stack[k].f = "change"

\* C1: at most one provider operation is in flight and at most one queued
\* task body is executing, in every reachable state.
C1_AtMostOneInFlight ==
    /\ Cardinality(InFlight) <= 1
    /\ Cardinality(Executing) <= 1
    /\ pending <= 1

\* C1 witness: one operation's provider call is in flight while another
\* submitted operation waits in the queue.
C1_Witness ==
    \E i, j \in 1..Len(ops) :
        /\ ops[i].pc = "running"
        /\ ops[j].pc = "queued"
        /\ ops[j].parent = 0
        /\ queue # <<>>

\* C2 (as claimed): the provider calls are those of the submitted operations,
\* in submission order and never overlapping, and once every call begun has
\* settled there is exactly one call per submitted operation.
C2_OneCallPerOperationInOrder ==
    /\ \A i \in 1..Len(calls) : calls[i].op \in Submitted
    /\ \A i, k \in 1..Len(calls) : i < k => calls[i].op < calls[k].op
    /\ Cardinality(InFlight) <= 1
    /\ Quiescent => Len(calls) = Cardinality(ProviderOps)

\* C3 (as claimed, in the form a finite run refutes): once every provider
\* call begun has settled and no continuation is left to run, every operation
\* has returned, the queue has drained with an idle event, and status is READY.
C3_NeverStuck ==
    (Quiescent /\ ops # <<>>) =>
        /\ \A j \in 1..Len(ops) : Completed(j)
        /\ queue = <<>>
        /\ pending = 0
        /\ drains # <<>>
        /\ status = "READY"

\* C4 (as claimed): a mutation submitted alone on a coordinator without a
\* snapshot, no provider call failing, leads to exactly one create call and
\* then one call of the mutation with the created snapshot, and the snapshot
\* ends as the mutation's result.
C4_CreateThenMutate ==
    (/\ Quiescent
     /\ Cardinality(Submitted) = 1
     /\ ops[1].kind \in Mutations
     /\ errors = <<>>) =>
        /\ Len(calls) = 2
        /\ calls[1].kind = "create"
        /\ calls[2].kind = ops[1].kind
        /\ calls[2].cart # Null
        /\ calls[2].cart = ops[calls[1].op].ret
        /\ cart = lastOk
        /\ cart # Null

\* C5 (as claimed): the cart a mutation's task passes to the provider is the
\* result of the most recent task that completed successfully before it.
C5_TaskReadsLatestResult ==
    [][\A i \in (Len(calls) + 1)..Len(calls') :
          calls'[i].kind \in Mutations => calls'[i].cart = lastOk']_vars

\* C6 (as claimed): no change event at a drain whose batch ends at the
\* revision the snapshot had when the batch began.
C6_NoChangeWhenRevisionUnchanged ==
    \A i \in 1..Len(drains) :
        cartRevisionId(drains[i].end) = cartRevisionId(drains[i].start)
            => ~drains[i].change

\* C7 (as claimed): a drain whose batch ends at another revision than the one
\* it began at emits a change event carrying the batch's ending snapshot.
C7_ChangeWhenRevisionDiffers ==
    \A i \in 1..Len(drains) :
        (DrainDone(i) /\ cartRevisionId(drains[i].end) # cartRevisionId(drains[i].start))
            => drains[i].change /\ drains[i].changeCart = drains[i].end

\* C8: the idle event fires exactly in the steps that take the number of
\* queued-or-executing tasks from nonzero to zero, once per such step.
C8_IdleOncePerDrain ==
    [][/\ IdleCount' \in {IdleCount, IdleCount + 1}
       /\ IdleCount' = IdleCount + 1
             <=> (Outstanding(queue, pending) > 0 /\ Outstanding(queue', pending') = 0)
      ]_vars

\* C8 witness: two operations were submitted back-to-back (two UPDATING
\* events before anything else), both have returned, and one idle event fired.
C8_Witness ==
    /\ Len(events) >= 2
    /\ events[1] = CartStatusChangeEvent("UPDATING")
    /\ events[2] = CartStatusChangeEvent("UPDATING")
    /\ Cardinality(Submitted) = 2
    /\ \A j \in 1..Len(ops) : ops[j].pc = "returned"
    /\ IdleCount = 1

\* C9 (as claimed): the idle event of a drain carries the result of the last
\* task that succeeded, i.e. the snapshot as it stands after the batch.
C9_IdleCarriesBatchResult ==
    \A i \in 1..Len(drains) : drains[i].idle = drains[i].end

\* C10 (as claimed): status is UPDATING whenever a task is queued or in
\* flight, and READY only when none is.
C10_StatusTracksOutstanding ==
    /\ Outstanding(queue, pending) > 0 => status = "UPDATING"
    /\ status = "READY" => Outstanding(queue, pending) = 0

\* The events the step under consideration adds to the log.
Dispatched == SubSeq(events', Len(events) + 1, Len(events'))

\* The place of op j in the order of queue.add.
EnqPos(e, j) == CHOOSE i \in 1..Len(e) : e[i] = j

StatusEvents == EventsOf(events, "statuschange")
StatusTransitions == {<<"IDLE", "UPDATING">>, <<"UPDATING", "READY">>, <<"READY", "UPDATING">>}
ErrorsOf(es, j) == SelectSeq(es, LAMBDA e : e.op = j)
AllReturned == \A j \in 1..Len(ops) : ops[j].pc = "returned"

\* C11 (as claimed): every statuschange event is a change of status along
\* IDLE -> UPDATING, UPDATING -> READY or READY -> UPDATING, so that no two
\* consecutive statuschange events carry the same status.
C11_StatusEventsAreTransitions ==
    LET seen == <<"IDLE">> \o [i \in 1..Len(StatusEvents) |-> StatusEvents[i].status]
    IN  /\ \A i \in 1..(Len(seen) - 1) : <<seen[i], seen[i + 1]>> \in StatusTransitions
        /\ status = seen[Len(seen)]

\* C12 (as claimed): when the task of an operation fails, onError is invoked
\* with that failure, once for the operation, and the snapshot stays as it
\* is; status is then set READY and dispatched; and the operation returns to
\* its caller without throwing.
C12_RejectionGoesToErrorSink ==
    [][\A j \in 1..Len(ops) :
          /\ (ops[j].pc = "settled" /\ ops'[j].pc = "onError") =>
                /\ errors' = Append(errors, [op |-> j, err |-> ops[j].outcome.err])
                /\ Len(ErrorsOf(errors', j)) = 1
                /\ cart' = cart
          /\ (ops[j].pc = "onError" /\ ops'[j].pc = "finishing") =>
                /\ status' = "READY"
                /\ Dispatched = <<CartStatusChangeEvent("READY")>>
                /\ errors' = errors
          /\ (ops[j].pc = "finishing" /\ ops'[j].pc \in {"returned", "thrown"}
                 /\ ~ops[j].outcome.ok) =>
                /\ ops'[j].pc = "returned"
                /\ ops'[j].caller \in {"snapshot", "undefined"}
                /\ Len(ErrorsOf(errors', j)) = 1]_vars

\* C13 (as claimed): an operation other than fetch returns the snapshot the
\* coordinator holds at the moment it returns.
C13_ReturnsCurrentSnapshot ==
    [][\A j \in 1..Len(ops) :
          (ops[j].pc # "returned" /\ ops'[j].pc = "returned" /\ ops[j].kind # "fetch")
              => ops'[j].ret = cart']_vars

\* C14 (as claimed): once everything begun has settled, every operation
\* submitted behind an operation that failed has had its provider call and
\* has returned.
C14_QueueSurvivesFailure ==
    Quiescent =>
        \A i \in 1..Len(errors) : \A j \in ProviderOps :
            j > errors[i].op =>
                /\ \E k \in 1..Len(calls) : calls[k].op = j
                /\ Completed(j)

\* A mutation's task ran without a snapshot and its creation attempt has
\* given it none.
NoSnapshotFromCreate(j) ==
    /\ ops[j].kind \in Mutations
    /\ \E k \in 1..Len(ops) :
          ops[k].parent = j /\ ops[k].ret = Null /\ ops[k].pc # "running"

\* C15 (as claimed): a mutation that gets no snapshot from its creation
\* attempt signals an exception to its caller, and no mutation is ever called
\* on the provider with a null cart.
C15_NoSnapshotIsSignalled ==
    /\ \A k \in 1..Len(calls) : calls[k].kind \in Mutations => calls[k].cart # Null
    /\ \A j \in 1..Len(ops) :
          (Quiescent /\ NoSnapshotFromCreate(j)) => ops[j].caller = "thrown"

OpIds == 1..(2 * MaxOps)

\* C16 (as claimed): a provider call that is in flight does not stay in
\* flight for ever: if the provider does not settle it, the queue fails the
\* task with a timeout.
C16_StalledCallTimesOut ==
    \A j \in OpIds :
        (j <= Len(ops) /\ ops[j].pc = "running" /\ ops[j].kind # "operation")
            ~> (j <= Len(ops) /\ ops[j].pc # "running")

\* C17: the promise fetch hands its caller resolves with undefined, from the
\* call on; the call sets status UPDATING and dispatches it; queue.add starts
\* the fetch task at once when the queue is empty and idle and queues it
\* otherwise; the tasks are started, and the provider called, in the order of
\* queue.add; the continuation of a fetch that succeeded writes its result
\* to the snapshot; and the finally block sets status READY and dispatches it.
C17_FetchIsFireAndForgetButSerialized ==
    [][/\ \A j \in 1..Len(ops') : ops'[j].kind = "fetch" =>
             /\ ops'[j].caller = "undefined"
             /\ j > Len(ops) =>
                   /\ status' = "UPDATING"
                   /\ Dispatched = <<CartStatusChangeEvent("UPDATING")>>
                   /\ ops'[j].pc = "created"
             /\ (j <= Len(ops) /\ ops[j].pc = "created" /\ ops'[j].pc # "created") =>
                   /\ enqueued' = Append(enqueued, j)
                   /\ ops'[j].pc \in {"queued", "running"}
                   /\ ops'[j].pc = "queued" <=> Outstanding(queue, pending) > 0
             /\ (j <= Len(ops) /\ ops[j].pc = "settled" /\ ops'[j].pc # "settled") =>
                   /\ Head(micro) = Microtask("cont", j, 0)
                   /\ ops[j].outcome.ok <=> ops'[j].pc = "finishing"
                   /\ ops[j].outcome.ok => cart' = ops[j].outcome.value
             /\ (j <= Len(ops) /\ ops[j].pc # "finishing" /\ ops'[j].pc = "finishing") =>
                   /\ status' = "READY"
                   /\ Dispatched = <<CartStatusChangeEvent("READY")>>
       /\ \A i, k \in 1..Len(enqueued') :
             (i < k /\ ops'[enqueued'[k]].pc # "queued") => ops'[enqueued'[i]].pc # "queued"
       /\ \A i, k \in 1..Len(calls') :
             i < k => EnqPos(enqueued', calls'[i].op) < EnqPos(enqueued', calls'[k].op)
      ]_vars

\* C17 witness: a fetch submitted behind another operation has been called
\* after it, its caller's promise resolved with undefined, and its result is
\* the snapshot.
C17_Witness ==
    \E i, k \in 1..Len(calls) :
        /\ i < k
        /\ calls[i].kind # "fetch"
        /\ calls[k].kind = "fetch"
        /\ ops[calls[k].op].pc = "returned"
        /\ ops[calls[k].op].caller = "undefined"
        /\ ops[calls[k].op].ret = cart
        /\ cart # Null
        /\ cart # ops[calls[i].op].ret

\* C18 (as claimed): every change event directly follows an idle event and
\* carries the same snapshot.
C18_ChangeDirectlyFollowsIdle ==
    \A i \in 1..Len(events) :
        events[i].type = "change" =>
            /\ i > 1
            /\ events[i - 1].type = "idle"
            /\ events[i - 1].cart = events[i].cart

\* C18 (amended): every change event follows an idle event that carries the
\* same snapshot, with nothing between the two but the statuschange events
\* (UPDATING) of the operations the listeners of that idle event submit; so
\* there is one change event at most between two consecutive idle events.
C18_ChangeFollowsIdle ==
    \A i \in 1..Len(events) :
        events[i].type = "change" =>
            \E k \in 1..(i - 1) :
                /\ events[k].type = "idle"
                /\ events[k].cart = events[i].cart
                /\ \A m \in (k + 1)..(i - 1) :
                      events[m] = CartStatusChangeEvent("UPDATING")

\* C18 witness: a listener of an idle event submitted an operation, and the
\* change event of that drain followed its statuschange event.
C18_Witness ==
    \E i \in 3..Len(events) :
        /\ events[i].type = "change"
        /\ events[i - 1] = CartStatusChangeEvent("UPDATING")
        /\ events[i - 2].type = "idle"
        /\ events[i - 2].cart = events[i].cart

\* C19: once every submitted operation has returned, the snapshot is the
\* result of the last task that completed successfully (null if none did);
\* and the snapshot is only ever written with the result of a task that has
\* completed.
C19_SnapshotIsLastSuccess ==
    /\ []((\A j \in Submitted : Completed(j)) => cart = lastOk)
    /\ [][cart' # cart =>
             /\ micro # <<>>
             /\ Head(micro).t = "cont"
             /\ ops[Head(micro).op].outcome.ok
             /\ cart' = ops[Head(micro).op].outcome.value]_vars

\* C19 witness: every operation has returned, one of them failed after
\* another had succeeded, and the snapshot is that success.
C19_Witness ==
    /\ ops # <<>>
    /\ AllReturned
    /\ cart = lastOk
    /\ cart # Null
    /\ \E i \in 1..Len(errors) : ops[errors[i].op].result # cart

\* C20: a change event always carries a snapshot, while every drain
\* dispatches an idle event, with or without one.
C20_ChangeCarriesSnapshot ==
    [][/\ \A i \in 1..Len(Dispatched) :
             Dispatched[i].type = "change" => Dispatched[i].cart # Null
       /\ (Outstanding(queue, pending) > 0 /\ Outstanding(queue', pending') = 0)
             => HasEvent(Dispatched, "idle")
      ]_vars

\* C20 witness: on a fresh coordinator a batch in which every operation
\* failed has drained: the idle event carries null and no change event fired.
C20_Witness ==
    /\ Len(errors) >= 2
    /\ Len(errors) = Len(ops)
    /\ AllReturned
    /\ \E i \in 1..Len(events) : events[i] = CartEvent("idle", Null)
    /\ ~HasEvent(events, "change")

====
